---- MODULE Spec2Model ----
(***************************************************************************)
(* Shape inference of the embedding-bag operators of the Model Optimizer   *)
(* (extensions/ops/embedding_bag.py): EmbeddingBagOffsetsSum,              *)
(* EmbeddingBagPackedSum and EmbeddingSegmentsSum.                         *)
(*                                                                         *)
(* A node is a variant tag, the set of its connected input ports, the      *)
(* shapes on ports 0..2, the constant value on port 3 and the shape of its *)
(* single output port.  A shape is a numpy masked array: a sequence of     *)
(* dimensions, each either known (a number) or masked (unknown).           *)
(***************************************************************************)
EXTENDS Integers, Sequences, FiniteSets, TLC

\* ---------------------------------------------------------------- bounds
MaxRank == 2        \* largest rank of the weights shape (port 0)
MaxIdxRank == 1     \* largest rank of the shapes on ports 1 and 2
MaxDim == 1         \* known dimensions are 0..MaxDim
MaxSegments == 1    \* non-negative num_segments constants are 0..MaxSegments
MaxCalls == 2       \* infer is called at most MaxCalls times on a node

\* ------------------------------------------------------------ data model
\* one element of a masked shape array
Known(n) == [known |-> TRUE, n |-> n]
Unknown == [known |-> FALSE, n |-> 0]
Dims == {Unknown} \cup {Known(n) : n \in 0..MaxDim}

RECURSIVE ShapesOfRank(_)
ShapesOfRank(r) ==
    IF r = 0 THEN {<<>>}
    ELSE {Append(s, d) : s \in ShapesOfRank(r - 1), d \in Dims}

ShapesUpTo(r) == UNION {ShapesOfRank(k) : k \in 0..r}

\* what get_shape() / get_value() return: None or a value
None == [some |-> FALSE, dims |-> <<>>]
Some(s) == [some |-> TRUE, dims |-> s]
NoValue == [some |-> FALSE, v |-> 0]
Value(v) == [some |-> TRUE, v |-> v]

OffsetsSum == "EmbeddingBagOffsetsSum"
PackedSum == "EmbeddingBagPackedSum"
SegmentsSum == "EmbeddingSegmentsSum"
Variants == {OffsetsSum, PackedSum, SegmentsSum}

in_ports_count(o) ==
    IF o = OffsetsSum THEN 5 ELSE IF o = PackedSum THEN 3 ELSE 6

in_ports(o) == 0..(in_ports_count(o) - 1)

\* the ports each infer asserts to be connected
Mandatory(o) ==
    IF o = OffsetsSum THEN {0, 1, 2}
    ELSE IF o = PackedSum THEN {0, 1} ELSE {0, 1, 2, 3}

VARIABLES
    op,          \* the node's operation
    connected,   \* indices of the input ports that are not disconnected
    shape,       \* shape[p]: in_port(p).data.get_shape() for p in 0..2
    value,       \* in_port(3).data.get_value()
    out_shape,   \* out_port(0).data shape; None until set_shape is called
    result,      \* how the last infer call ended; "none" before any call
    err_ports,   \* the ports the failed connectivity assertion reports
    calls        \* how many times infer has been called on the node

vars == <<op, connected, shape, value, out_shape, result, err_ports, calls>>

\* ---------------------------------------------------------- array helpers
\* s[:1]
SlicePrefix1(s) == IF Len(s) = 0 THEN <<>> ELSE <<s[1]>>

\* s[1:]
SliceFrom1(s) == IF Len(s) = 0 THEN <<>> ELSE Tail(s)

\* np.concatenate: the result is a plain array, every element unmasked
NpConcatenate(a, b) == [i \in 1..(Len(a) + Len(b)) |-> Known((a \o b)[i].n)]

\* np.ma.concatenate: data and mask are both concatenated
MaConcatenate(a, b) == a \o b

\* truth value of (a == b) for two one-element masked arrays: an element
\* masked on both sides compares equal, masked on one side unequal
MaEqual1(a, b) ==
    IF a[1].known /\ b[1].known THEN a[1].n = b[1].n
    ELSE a[1].known = b[1].known

\* data.set_shape(s) on the output port, cur being the shape it holds
SetShapeAccumulate(cur, s) == IF cur.some THEN Some(s \o s) ELSE Some(s)

SetShape(cur, s) == Some(s)

\* outcomes of one infer call
Ok(s) == [result |-> "ok", shape |-> s, ports |-> {}]
Raise(kind) == [result |-> kind, shape |-> <<>>, ports |-> {}]
RaiseMissing(conn) == [result |-> "MissingRequiredInput", shape |-> <<>>, ports |-> conn]

\* the weights assertion off by one
WeightsRankOkLoose(weights_shape) == Len(weights_shape) >= 1

WeightsRankOk(weights_shape) == Len(weights_shape) >= 2

\* ------------------------------------------------- EmbeddingBagOffsetsSum
\* the connectivity assertion with all(p in connected_in_ports ...) dropped
OffsetsSumCountOnly(conn) == Cardinality(conn) >= 3

OffsetsSumPortsOk(conn) ==
    Cardinality(conn) >= 3 /\ \A p \in {0, 1, 2} : p \in conn

\* the leading dimension taken from the weights instead of the offsets
OffsetsSumShapeFromWeights(weights_shape, offsets_shape) ==
    MaConcatenate(SlicePrefix1(weights_shape), SliceFrom1(weights_shape))

OffsetsSumShape(weights_shape, offsets_shape) ==
    MaConcatenate(SlicePrefix1(offsets_shape), SliceFrom1(weights_shape))

OffsetsSumInfer(conn, sh) ==
    IF ~OffsetsSumPortsOk(conn) THEN RaiseMissing(conn)
    ELSE IF ~sh[0].some THEN Raise("TypeError")
    ELSE IF ~WeightsRankOk(sh[0].dims) THEN Raise("RankTooLow")
    ELSE IF ~(sh[2].some /\ Len(sh[2].dims) = 1) THEN Raise("InvalidOffsetsRank")
    ELSE Ok(OffsetsSumShape(sh[0].dims, sh[2].dims))

\* -------------------------------------------------- EmbeddingBagPackedSum
PackedSumPortsOk(conn) ==
    Cardinality(conn) >= 2 /\ \A p \in {0, 1} : p \in conn

PackedSumShape(weights_shape, input_shape) ==
    MaConcatenate(SlicePrefix1(input_shape), SliceFrom1(weights_shape))

PackedSumInfer(conn, sh) ==
    IF ~PackedSumPortsOk(conn) THEN RaiseMissing(conn)
    ELSE IF ~sh[0].some THEN Raise("TypeError")
    ELSE IF ~WeightsRankOk(sh[0].dims) THEN Raise("RankTooLow")
    ELSE IF ~sh[1].some THEN Raise("TypeError")
    ELSE Ok(PackedSumShape(sh[0].dims, sh[1].dims))

\* --------------------------------------------------- EmbeddingSegmentsSum
SegmentsSumPortsOk(conn) ==
    Cardinality(conn) >= 4 /\ \A p \in {0, 1, 2, 3} : p \in conn

\* the shape assertion with the comparison of the two shapes dropped
SegmentsSumRanksOnly(indices_shape, segment_ids) ==
    Len(indices_shape) = 1 /\ Len(segment_ids) = 1

SegmentsSumShapesOk(indices_shape, segment_ids) ==
    Len(indices_shape) = 1 /\ Len(segment_ids) = 1
        /\ MaEqual1(indices_shape, segment_ids)

\* the constant assertion missing
NumSegmentsAny(num_segments) == TRUE

NumSegmentsOk(num_segments) == num_segments.some

\* the leading dimension taken from the weights instead of the constant
SegmentsSumShapeFromWeights(num_segments, weights_shape) ==
    MaConcatenate(SlicePrefix1(weights_shape), SliceFrom1(weights_shape))

SegmentsSumShape(num_segments, weights_shape) ==
    MaConcatenate(<<Known(num_segments)>>, SliceFrom1(weights_shape))

\* len(indices_shape) == 1 and len(segment_ids) == 1 and ... evaluates left
\* to right and stops at the first false operand; len(None) is a TypeError
SegmentsSumInfer(conn, sh, val) ==
    IF ~SegmentsSumPortsOk(conn) THEN RaiseMissing(conn)
    ELSE IF ~sh[0].some THEN Raise("TypeError")
    ELSE IF ~WeightsRankOk(sh[0].dims) THEN Raise("RankTooLow")
    ELSE IF ~sh[1].some THEN Raise("TypeError")
    ELSE IF Len(sh[1].dims) # 1 THEN Raise("ShapeMismatch")
    ELSE IF ~sh[2].some THEN Raise("TypeError")
    ELSE IF ~SegmentsSumShapesOk(sh[1].dims, sh[2].dims) THEN Raise("ShapeMismatch")
    ELSE IF ~NumSegmentsOk(val) THEN Raise("RequiresConstant")
    ELSE Ok(SegmentsSumShape(val.v, sh[0].dims))

\* ------------------------------------------------------ the state machine
\* a disconnected port carries no shape; a connected one may still have
\* none (its producer not inferred yet)
PortShapes(isConnected, maxRank) ==
    IF isConnected THEN {None} \cup {Some(s) : s \in ShapesUpTo(maxRank)}
    ELSE {None}

SegmentValues == {-1} \cup 0..MaxSegments

PortValues(isConstant) ==
    IF isConstant THEN {NoValue} \cup {Value(v) : v \in SegmentValues}
    ELSE {NoValue}

\* A freshly built node with any wiring of its input ports.  The shape of
\* port 2 of EmbeddingBagPackedSum and the value of port 3 of the other two
\* operations are never read and are left out.
Init ==
    /\ op \in Variants
    /\ connected \in SUBSET in_ports(op)
    /\ \E w \in PortShapes(0 \in connected, MaxRank),
          i \in PortShapes(1 \in connected, MaxIdxRank),
          s \in PortShapes(2 \in connected /\ op # PackedSum, MaxIdxRank) :
            shape = [p \in 0..2 |-> IF p = 0 THEN w ELSE IF p = 1 THEN i ELSE s]
    /\ value \in PortValues(op = SegmentsSum /\ 3 \in connected)
    /\ out_shape = None
    /\ result = "none"
    /\ err_ports = {}
    /\ calls = 0

\* one call of node.infer(node): on success the shape is written to the
\* output port; a failed assertion leaves the output port alone
Finish(r) ==
    /\ calls < MaxCalls
    /\ calls' = calls + 1
    /\ result' = r.result
    /\ err_ports' = r.ports
    /\ out_shape' = IF r.result = "ok" THEN SetShape(out_shape, r.shape) ELSE out_shape
    /\ UNCHANGED <<op, connected, shape, value>>

EmbeddingBagOffsetsSum_infer ==
    /\ op = OffsetsSum
    /\ Finish(OffsetsSumInfer(connected, shape))

EmbeddingBagPackedSum_infer ==
    /\ op = PackedSum
    /\ Finish(PackedSumInfer(connected, shape))

EmbeddingSegmentsSum_infer ==
    /\ op = SegmentsSum
    /\ Finish(SegmentsSumInfer(connected, shape, value))

Next ==
    \/ EmbeddingBagOffsetsSum_infer
    \/ EmbeddingBagPackedSum_infer
    \/ EmbeddingSegmentsSum_infer

Spec == Init /\ [][Next]_vars

\* ================================================================ claims
Called == calls >= 1
weights == shape[0].dims
indices == shape[1].dims
port2 == shape[2].dims
out == out_shape.dims

\* an unknown source dimension stays unknown, a known one keeps its value
Propagates(src, dst) ==
    /\ ~src.known => ~dst.known
    /\ src.known => (dst.known /\ dst.n = src.n)

WeightsValid == shape[0].some /\ Len(weights) >= 2

OffsetsSumValid ==
    /\ op = OffsetsSum
    /\ {0, 1, 2} \subseteq connected
    /\ WeightsValid
    /\ shape[2].some /\ Len(port2) = 1

PackedSumValid ==
    /\ op = PackedSum
    /\ {0, 1} \subseteq connected
    /\ WeightsValid
    /\ shape[1].some

SegmentsSumShapesValid ==
    /\ op = SegmentsSum
    /\ {0, 1, 2, 3} \subseteq connected
    /\ WeightsValid
    /\ shape[1].some /\ shape[2].some
    /\ Len(indices) = 1 /\ Len(port2) = 1
    /\ indices[1] = port2[1]

SegmentsSumValid == SegmentsSumShapesValid /\ value.some

\* C1: EmbeddingBagOffsetsSum.infer on a valid node (ports 0, 1, 2
\* connected, weights of rank >= 2, offsets present with rank 1) succeeds
\* and writes offsets_shape[0:1] followed by weights_shape[1:]: the rank of
\* the output is the rank of the weights and its first dimension is the
\* offsets length, whatever the indices shape and ports 3 and 4 are.
C1_OffsetsSumOutput ==
    (Called /\ OffsetsSumValid) =>
        /\ result = "ok"
        /\ out_shape.some
        /\ Len(out) = Len(weights)
        /\ out[1] = port2[1]
        /\ \A k \in 2..Len(weights) : out[k] = weights[k]

C1_Witness ==
    /\ Called /\ OffsetsSumValid /\ result = "ok"
    /\ port2[1] # weights[1]
    /\ ~shape[1].some
    /\ 3 \in connected

\* C2 (as claimed): EmbeddingBagPackedSum.infer on a node that passes its
\* validation (ports 0 and 1 connected, weights of rank >= 2, indices shape
\* present, of any rank) writes a shape with output[0] = indices_shape[0]
\* and output[1:] = weights_shape[1:].
C2_PackedSumOutput ==
    (Called /\ PackedSumValid) =>
        /\ result = "ok"
        /\ out_shape.some
        /\ Len(indices) >= 1
        /\ Len(out) >= 1
        /\ out[1] = indices[1]
        /\ Tail(out) = Tail(weights)

\* C3: EmbeddingSegmentsSum.infer on a valid node (ports 0..3 connected,
\* weights of rank >= 2, indices and segment_ids of equal rank-1 shape, a
\* constant on port 3) succeeds and writes the constant's value followed by
\* weights_shape[1:], whatever the indices length and ports 4 and 5 are.
C3_SegmentsSumOutput ==
    (Called /\ SegmentsSumValid) =>
        /\ result = "ok"
        /\ out_shape.some
        /\ Len(out) = Len(weights)
        /\ out[1] = Known(value.v)
        /\ \A k \in 2..Len(weights) : out[k] = weights[k]

C3_Witness ==
    /\ Called /\ SegmentsSumValid /\ result = "ok"
    /\ indices[1] # Known(value.v)
    /\ weights[1] # Known(value.v)
    /\ 5 \in connected

C5_RankTooLow ==
    Called =>
        /\ (Mandatory(op) \subseteq connected /\ shape[0].some /\ Len(weights) < 2)
              => (result = "RankTooLow" /\ ~out_shape.some)
        /\ result = "RankTooLow" => (shape[0].some /\ Len(weights) < 2)

C5_Witness ==
    /\ Called /\ op = SegmentsSum
    /\ Len(weights) = 1
    /\ shape[1].some /\ shape[2].some /\ indices # port2
    /\ result = "RankTooLow"

\* C6: EmbeddingSegmentsSum.infer with ports 0..3 connected, weights of
\* rank >= 2 and the indices and segment_ids shapes present: the shape check
\* passes exactly when both have rank 1 and are equal element-wise; in every
\* other case infer fails with ShapeMismatch and writes no output shape.
C6_ShapeMismatch ==
    (/\ Called /\ op = SegmentsSum /\ {0, 1, 2, 3} \subseteq connected
     /\ WeightsValid /\ shape[1].some /\ shape[2].some) =>
        IF Len(indices) = 1 /\ Len(port2) = 1 /\ indices[1] = port2[1]
        THEN result \in {"ok", "RequiresConstant"}
        ELSE result = "ShapeMismatch" /\ ~out_shape.some

C6_Witness ==
    /\ Called /\ op = SegmentsSum
    /\ Len(indices) = 1 /\ Len(port2) = 1
    /\ indices[1].known /\ port2[1].known /\ indices[1].n # port2[1].n
    /\ value.some
    /\ result = "ShapeMismatch"

\* C7: for every variant and every input its validation accepts, infer
\* succeeds and each dimension that feeds the output (offsets_shape[0],
\* indices_shape[0], weights_shape[i] for i >= 1) reaches its place in the
\* output unchanged: Unknown stays Unknown, a known value stays that value.
LeadLen == IF op = PackedSum /\ Len(indices) = 0 THEN 0 ELSE 1

C7_UnknownPropagates ==
    (Called /\ (OffsetsSumValid \/ PackedSumValid \/ SegmentsSumValid)) =>
        /\ result = "ok"
        /\ out_shape.some
        /\ Len(out) = LeadLen + Len(weights) - 1
        /\ op = OffsetsSum => Propagates(port2[1], out[1])
        /\ (op = PackedSum /\ Len(indices) >= 1) => Propagates(indices[1], out[1])
        /\ \A k \in 2..Len(weights) : Propagates(weights[k], out[LeadLen + k - 1])

C7_Witness ==
    /\ Called /\ PackedSumValid /\ result = "ok"
    /\ Len(indices) = 1 /\ ~indices[1].known
    /\ ~weights[2].known /\ weights[1].known
    /\ ~out[1].known /\ ~out[2].known

C9_RequiresConstant ==
    (Called /\ SegmentsSumShapesValid /\ ~value.some) =>
        (result = "RequiresConstant" /\ ~out_shape.some)

C9_Witness ==
    /\ Called /\ SegmentsSumShapesValid /\ ~value.some
    /\ result = "RequiresConstant"

\* C10 (as claimed): after any successful infer the output shape has the
\* rank of the weights and every dimension of it is Unknown or a known
\* non-negative integer.
C10_OutputWellFormed ==
    (Called /\ result = "ok") =>
        /\ out_shape.some
        /\ Len(out) = Len(weights)
        /\ \A k \in 1..Len(out) : out[k].known => out[k].n >= 0

====
